---- MODULE Spec2Model ----
(***************************************************************************)
(* Model of the watlow drivers.                                            *)
(*                                                                         *)
(*  - watlow/util.py   AsyncioModbusClient: background connect task, one   *)
(*    asyncio.Lock shared by the connect step and every request, chunked   *)
(*    register reads and writes, timeout handling, async context manager.  *)
(*  - watlow/driver.py Gateway (get / set_setpoint on top of the client)   *)
(*    and TemperatureController (serial framed client).                    *)
(*                                                                         *)
(* One action is one run of a coroutine between two suspension points of   *)
(* the asyncio event loop (await of the connect task, of the lock, of the  *)
(* request future): everything the code does in between is part of it.     *)
(***************************************************************************)
EXTENDS Integers, Sequences, FiniteSets, TLC

\* ------------------------------------------------------------- bounds
NumCallers == 2
MaxChunks == 1
\* max_temp given to the mock Gateway
MockMaxTemp == 27

\* --------------------------------------------------- program constants
ReadLimit == 124
WriteLimit == 62
WriteStride == 124
ModbusOffset == 5000
ActualTempAddress == 360
SetpointAddress == 2160
OutputAddress == 1904
MinTemp == 10
MaxTemp == 220

\* self.modbus and self.pymodbus35plus are read by the code but assigned
\* nowhere in util.py or driver.py: hasattr(self, 'modbus') is False and
\* reading self.pymodbus35plus raises AttributeError.
HasModbusAttr == FALSE
HasPymodbus35plus == FALSE

Callers == 1..NumCallers

VARIABLES
    connectTask,    \* self.connectTask: "pending", "running", "done", "failed",
                    \* "cancelled"
    connectCalls,   \* number of calls of self.client.connect()
    connected,      \* self.client.connected
    ctx,            \* async context manager: "new", "body", "exited"
    locked,         \* self.lock._locked
    lockWaiters,    \* self.lock._waiters, oldest first
    lockWoken,      \* the future of the first lock waiter has been resolved
    connWaiters,    \* callers suspended in `await self.connectTask`, oldest first
    task,           \* per caller: position and locals of its logical call;
                    \* caller c is the task of the c-th logical call submitted
    backend,        \* registers of the device written so far (address -> value)
    nextSeq,        \* logical calls submitted so far
    returned        \* the logical call the last step ended, if it ended
                    \* one: what its caller got

gvars == <<connectTask, connectCalls, connected, ctx, locked, lockWaiters,
           lockWoken, connWaiters, task, backend, nextSeq, returned>>

VARIABLES
    isOpen,         \* self.connection.is_open
    sPc,            \* "idle", or "attempt": inside _write_and_read
    sCall,          \* the get or set call in progress
    sKey,           \* get: index of the key being read
    sOutput,        \* get: the output dictionary so far, in key order
    sRequest,       \* _write_and_read: request
    sRetries,       \* _write_and_read: retries
    tx,             \* frames written to the port during the call
    opened,         \* serial.Serial objects self.open() created and dropped
    rx,             \* what the write-read cycle of the last step produced
    sReturned       \* the call the last step ended, if it ended one

svars == <<isOpen, sPc, sCall, sKey, sOutput, sRequest, sRetries, tx, opened,
           rx, sReturned>>

VARIABLES
    mState,         \* mock: self.state, zone -> actual, setpoint, output
    mReturned       \* mock: the call the last step ended, if it ended one

mvars == <<mState, mReturned>>

vars == <<gvars, svars, mvars>>

\* ------------------------------------------------------------ helpers
Min(a, b) == IF a < b THEN a ELSE b

Concat(s, t) == s \o t

\* values[n:] of Python
Drop(s, n) == IF Len(s) <= n THEN <<>> ELSE SubSeq(s, n + 1, Len(s))

\* values[a:b] of Python (0-based, b exclusive)
Slice(s, a, b) == IF a >= Min(b, Len(s)) THEN <<>> ELSE SubSeq(s, a + 1, Min(b, Len(s)))

CeilDiv(n, d) == (n + d - 1) \div d

\* ------------------------------------------------------------- device
\* Content of a register never written: a fixed pattern that differs from
\* one address to the next.
InitialRegister(a) == (a * 7 + 3) % 11

RegisterAt(b, a) == IF a \in DOMAIN b THEN b[a] ELSE InitialRegister(a)

\* The response of the device to read_holding_registers(address, count).
ReadResponse(b, address, count) ==
    [i \in 1..count |-> RegisterAt(b, address + i - 1)]

\* The device after write_registers(address, values): consecutive registers.
WriteResponse(b, address, values) ==
    [a \in DOMAIN b \cup {address + i - 1 : i \in 1..Len(values)} |->
        IF a - address + 1 \in 1..Len(values)
        THEN values[a - address + 1]
        ELSE b[a]]

\* ------------------------------------------------------------- inputs
NoCall == [kind |-> "none"]
NoReq == [method |-> "none", address |-> 0, count |-> 0, values |-> <<>>]

ReadReq(address, count) ==
    [method |-> "read_holding_registers", address |-> address,
     count |-> count, values |-> <<>>]

WriteReq(address, values) ==
    [method |-> "write_registers", address |-> address,
     count |-> 0, values |-> values]

BaseAddress == 7
\* One register, MaxChunks full messages, and one register or value more.
ReadCounts == {1, MaxChunks * ReadLimit, MaxChunks * ReadLimit + 1}
WriteLens == {MaxChunks * WriteLimit, MaxChunks * WriteLimit + 1}
InputValues(n) == [i \in 1..n |-> 100 + i]
Zones == {1}
Setpoints == {9, 150}

Calls ==
    {[kind |-> "read_registers", address |-> BaseAddress, count |-> n] :
        n \in ReadCounts}
    \cup {[kind |-> "write_registers", address |-> BaseAddress,
           values |-> InputValues(n)] : n \in WriteLens}
    \cup {[kind |-> "get", zone |-> z] : z \in Zones}
    \cup {[kind |-> "set_setpoint", zone |-> z, setpoint |-> s] :
            z \in Zones, s \in Setpoints}

IdleTask ==
    [pc |-> "idle", call |-> NoCall, address |-> 0, count |-> 0,
     values |-> <<>>, registers |-> <<>>, rpc |-> "none", req |-> NoReq,
     sent |-> <<>>, key |-> 0, output |-> <<>>, quiet |-> TRUE]

DoneTask == [IdleTask EXCEPT !.pc = "done"]

\* The task of a caller that was cancelled.
CancelledTask == [IdleTask EXCEPT !.pc = "cancelled"]

NoReturn ==
    [caller |-> 0, call |-> NoCall, sent |-> <<>>, result |-> <<>>,
     err |-> "none", quiet |-> TRUE]


\* ----------------------------------------------------- payload codec
\* BinaryPayloadBuilder.add_32bit_float / BinaryPayloadDecoder
\* .decode_32bit_float with big-endian word order: a 32-bit pattern is two
\* 16-bit registers, most significant first.  A float is modelled by its
\* value in tenths, which stands for its bit pattern.
FloatToRegisters(x) == <<x \div 65536, x % 65536>>

RegistersToFloat(r) == r[1] * 65536 + r[2]

GetKeys == <<"actual", "setpoint", "output">>

FieldAddress(k) ==
    CASE k = "actual" -> ActualTempAddress
      [] k = "setpoint" -> SetpointAddress
      [] k = "output" -> OutputAddress

ZoneAddress(zone, field) == (zone - 1) * ModbusOffset + field

InSetpointRange(s) == MinTemp <= s /\ s <= MaxTemp

\* ------------------------------------------------ the state as a value
\* The part of the state a running coroutine can change, as one record, so
\* that a run between two suspension points composes from the operators
\* below.
\* The element of a set of one element.  An operator below is written
\* Only({body : W \in {W0}}): body over the value W of its argument W0, which
\* is then evaluated once, however often body uses W.
Only(S) == CHOOSE x \in S : TRUE

World ==
    [task |-> task, locked |-> locked, lockWaiters |-> lockWaiters,
     lockWoken |-> lockWoken, connWaiters |-> connWaiters,
     connected |-> connected, backend |-> backend, returned |-> NoReturn]

Commit(W0) ==
    \E W \in {W0} :
        /\ task' = W.task
        /\ locked' = W.locked
        /\ lockWaiters' = W.lockWaiters
        /\ lockWoken' = W.lockWoken
        /\ connWaiters' = W.connWaiters
        /\ connected' = W.connected
        /\ backend' = W.backend
        /\ returned' = W.returned

\* ------------------------------------------------------- asyncio.Lock
\* Lock.acquire takes the lock at once only when it is free and nobody is
\* queued for it (a woken waiter that has not run yet is still queued).
LockFreeUnlockedIgnored(W) == W.lockWaiters = <<>>

LockFreeWaitersIgnored(W) == ~W.locked

LockFree(W) == ~W.locked /\ W.lockWaiters = <<>>

\* Lock.release: unlock and resolve the future of the first waiter.
ReleaseLockNoWake(W) == [W EXCEPT !.locked = FALSE]

ReleaseLock(W0) ==
    Only({(
        [W EXCEPT !.locked = FALSE, !.lockWoken = (W.lockWaiters # <<>>)])
        : W \in {W0}})

\* The waiter Lock._wake_up_first resolves.
FirstWaiter(waiters) == Head(waiters)

\* ------------------------------------------------- await connectTask
ConnectTaskNotAwaited == TRUE

ConnectTaskFinished == connectTask \in {"done", "failed", "cancelled"}

\* Awaiting a task that ended with an exception raises it again.
ConnectTaskFailureSwallowed == FALSE

ConnectTaskRaises == connectTask \in {"failed", "cancelled"}

\* What awaiting the ended connect task raises: the IOError of _connect, or
\* CancelledError when the task was cancelled.
ConnectTaskError ==
    IF connectTask = "cancelled" THEN "CancelledError" ELSE "IOError"

\* ----------------------------------------------------- logical calls
\* The logical call of caller c ends: with a result, or with the exception e.
\* quiet: the device applied no write between its start and its end.
Finish(W0, c, res, e) ==
    Only({(
        [W EXCEPT
            !.task[c] = DoneTask,
            !.returned = [caller |-> c, call |-> W.task[c].call,
                          sent |-> W.task[c].sent, result |-> res, err |-> e,
                          quiet |-> W.task[c].quiet]])
        : W \in {W0}})

\* read_registers: the request of the next loop iteration (lines 73, 76).
ReadChunkCount(count) == IF count > ReadLimit THEN ReadLimit ELSE count

ReadIsLoop(count) == count > ReadLimit

ReadAdvanceAddressKept(address, count) ==
    [address |-> address, count |-> count - ReadLimit]

\* read_registers line 75
ReadAdvance(address, count) ==
    [address |-> address + ReadLimit, count |-> count - ReadLimit]

\* write_registers: the values passed to the request (lines 105, 108).
WriteChunkValues(values) == values

WriteIsLoop(values) == Len(values) > WriteLimit

\* write_registers line 107
WriteAdvance(address, values) ==
    [address |-> address + WriteStride, values |-> Drop(values, WriteLimit)]

\* self.client.connected, as _request reads it with the lock held
LinkAssumedUp(W) == TRUE

LinkUp(W) == W.connected

RECURSIVE Request(_, _, _), AcquireLock(_, _, _), Acquired(_, _), Raise(_, _, _)
RECURSIVE ReadIter(_, _), ReadRegisters(_, _, _, _), GetLoop(_, _)

\* AsyncioModbusClient._request up to its first suspension.
Request(W0, c, r) ==
    Only({(
        IF ~ConnectTaskFinished
        THEN [W EXCEPT !.task[c].pc = "connwait", !.task[c].req = r,
                       !.connWaiters = Append(@, c)]
        ELSE IF ConnectTaskRaises
        THEN Raise(W, c, ConnectTaskError)
        ELSE AcquireLock(W, c, r))
        : W \in {W0}})

\* `async with self.lock`
AcquireLock(W0, c, r) ==
    Only({(
        LET W1 == [W EXCEPT !.task[c].req = r]
        IN  IF LockFree(W1)
            THEN Acquired([W1 EXCEPT !.locked = TRUE], c)
            ELSE [W1 EXCEPT !.task[c].pc = "lockwait",
                            !.lockWaiters = Append(@, c)])
        : W \in {W0}})

\* _request with the lock held, up to the await of the request future.
Acquired(W0, c) ==
    Only({(
        IF ~LinkUp(W)
        THEN Raise(ReleaseLock(W), c, "TimeoutError")
        ELSE [W EXCEPT !.task[c].pc = "inflight",
                       !.task[c].sent = Append(@, W.task[c].req)])
        : W \in {W0}})

\* Gateway.get, from the field of index k on.
GetLoop(W0, c) ==
    Only({(
        LET t == W.task[c]
        IN  IF t.key > Len(GetKeys)
            THEN Finish(W, c, t.output, "none")
            ELSE ReadRegisters(W, c,
                     ZoneAddress(t.call.zone, FieldAddress(GetKeys[t.key])), 2))
        : W \in {W0}})

\* The exception e leaves _request, read_registers or write_registers.
Raise(W0, c, e) ==
    Only({(
        LET t == W.task[c]
        IN  IF t.call.kind = "get" /\ e = "AttributeError"
            THEN GetLoop([W EXCEPT !.task[c].output = Append(@, "None"),
                                   !.task[c].key = @ + 1], c)
            ELSE Finish(W, c, <<>>, e))
        : W \in {W0}})

\* read_registers: the while test and the request of lines 72-73 or 76.
ReadIter(W0, c) ==
    Only({(
        LET t == W.task[c]
        IN  Request([W EXCEPT !.task[c].rpc =
                         IF ReadIsLoop(t.count) THEN "loop" ELSE "last"],
                    c, ReadReq(t.address, ReadChunkCount(t.count))))
        : W \in {W0}})

ReadRegisters(W0, c, address, count) ==
    Only({(
        ReadIter([W EXCEPT !.task[c].address = address,
                           !.task[c].count = count,
                           !.task[c].registers = <<>>], c))
        : W \in {W0}})

\* read_registers after its request returned the registers regs.
ReadReturn(W0, c, regs) ==
    Only({(
        LET t == W.task[c]
            all == Concat(t.registers, regs)
            nxt == ReadAdvance(t.address, t.count)
        IN  IF t.rpc = "loop"
            THEN ReadIter([W EXCEPT !.task[c].registers = all,
                                    !.task[c].address = nxt.address,
                                    !.task[c].count = nxt.count], c)
            ELSE IF t.call.kind = "get"
            THEN GetLoop([W EXCEPT
                     !.task[c].output = Append(@, RegistersToFloat(all)),
                     !.task[c].key = @ + 1], c)
            ELSE Finish(W, c, all, "none"))
        : W \in {W0}})

\* write_registers: the while test and the request of lines 104-105 or 108.
WriteIter(W0, c) ==
    Only({(
        LET t == W.task[c]
        IN  Request([W EXCEPT !.task[c].rpc =
                         IF WriteIsLoop(t.values) THEN "loop" ELSE "last"],
                    c, WriteReq(t.address, WriteChunkValues(t.values))))
        : W \in {W0}})

WriteRegisters(W0, c, address, values) ==
    Only({(
        WriteIter([W EXCEPT !.task[c].address = address,
                            !.task[c].values = values], c))
        : W \in {W0}})

\* write_registers after its request returned.
WriteReturn(W0, c) ==
    Only({(
        LET t == W.task[c]
            nxt == WriteAdvance(t.address, t.values)
        IN  IF t.rpc = "loop"
            THEN WriteIter([W EXCEPT !.task[c].address = nxt.address,
                                     !.task[c].values = nxt.values], c)
            ELSE Finish(W, c, <<>>, "none"))
        : W \in {W0}})

\* Gateway.get up to its first suspension.
Get(W0, c, zone) ==
    Only({(
        IF ~HasPymodbus35plus
        THEN Finish(W, c, <<>>, "AttributeError")
        ELSE GetLoop([W EXCEPT !.task[c].key = 1, !.task[c].output = <<>>], c))
        : W \in {W0}})

\* Gateway.set_setpoint up to its first suspension.
SetSetpoint(W0, c, zone, setpoint) ==
    Only({(
        IF ~InSetpointRange(setpoint)
        THEN Finish(W, c, <<>>, "ValueError")
        ELSE IF ~HasPymodbus35plus
        THEN Finish(W, c, <<>>, "AttributeError")
        ELSE WriteRegisters(W, c, ZoneAddress(zone, SetpointAddress),
                            FloatToRegisters(setpoint * 10)))
        : W \in {W0}})

StartCall(W0, c, o) ==
    Only({(
        CASE o.kind = "read_registers" -> ReadRegisters(W, c, o.address, o.count)
          [] o.kind = "write_registers" -> WriteRegisters(W, c, o.address, o.values)
          [] o.kind = "get" -> Get(W, c, o.zone)
          [] o.kind = "set_setpoint" -> SetSetpoint(W, c, o.zone, o.setpoint))
        : W \in {W0}})

\* --------------------------------------------------------- the actions
\* __init__ leaves the connect task created and not yet run.
GatewayInit ==
    /\ connectTask = "pending"
    /\ connectCalls = 0
    /\ connected = FALSE
    /\ ctx = "new"
    /\ locked = FALSE
    /\ lockWaiters = <<>>
    /\ lockWoken = FALSE
    /\ connWaiters = <<>>
    /\ task = [c \in Callers |-> IdleTask]
    /\ backend = <<>>
    /\ nextSeq = 0
    /\ returned = NoReturn

\* _connect, first run: takes the lock and calls self.client.connect().
ConnectStart ==
    /\ connectTask = "pending"
    /\ LockFree(World)
    /\ connectTask' = "running"
    /\ connectCalls' = connectCalls + 1
    /\ locked' = TRUE
    /\ UNCHANGED <<connected, ctx, lockWaiters, lockWoken, connWaiters, task,
                   backend, nextSeq>>
    /\ returned' = NoReturn
    /\ UNCHANGED <<svars, mvars>>

\* _connect, second run: connect() returned (ok), or raised or timed out
\* (IOError); the lock is released on both paths.
ConnectFinish(ok) ==
    /\ connectTask = "running"
    /\ connectTask' = IF ok THEN "done" ELSE "failed"
    /\ Commit(ReleaseLock([World EXCEPT !.connected = ok]))
    /\ UNCHANGED <<connectCalls, ctx, nextSeq>>
    /\ UNCHANGED <<svars, mvars>>

\* A caller starts a logical call and runs up to its first suspension.
Submit(c, o) ==
    /\ c = nextSeq + 1
    /\ task[c].pc = "idle"
    /\ nextSeq' = nextSeq + 1
    /\ Commit(StartCall(
           [World EXCEPT !.task[c] =
               [IdleTask EXCEPT !.call = o]], c, o))
    /\ UNCHANGED <<connectTask, connectCalls, ctx>>
    /\ UNCHANGED <<svars, mvars>>

\* The connect task has ended: the callers awaiting it resume, oldest first.
ResumeConnWaiter ==
    /\ ConnectTaskFinished
    /\ connWaiters # <<>>
    /\ LET c == Head(connWaiters)
           W == [World EXCEPT !.connWaiters = Tail(@)]
       IN  Commit(IF ConnectTaskRaises
                  THEN Raise(W, c, ConnectTaskError)
                  ELSE AcquireLock(W, c, task[c].req))
    /\ UNCHANGED <<connectTask, connectCalls, ctx, nextSeq>>
    /\ UNCHANGED <<svars, mvars>>

\* The woken lock waiter resumes inside Lock.acquire and holds the lock.
ResumeLockWaiter ==
    /\ lockWoken
    /\ lockWaiters # <<>>
    /\ LET c == FirstWaiter(lockWaiters)
           W == [World EXCEPT
                    !.lockWaiters = SelectSeq(@, LAMBDA w : w # c),
                    !.lockWoken = FALSE, !.locked = TRUE]
       IN  Commit(Acquired(W, c))
    /\ UNCHANGED <<connectTask, connectCalls, ctx, nextSeq>>
    /\ UNCHANGED <<svars, mvars>>

\* The handlers of asyncio.TimeoutError and ConnectionException.
MarkLost(W0) ==
    Only({(
        IF W.connected /\ HasModbusAttr
        THEN [W EXCEPT !.connected = FALSE]
        ELSE W)
        : W \in {W0}})

\* The device has applied a write: no call in progress is quiet any more.
Written(W0) ==
    Only({(
        [W EXCEPT !.task = [c \in Callers |->
            IF W.task[c].pc \in {"idle", "done"}
            THEN W.task[c]
            ELSE [W.task[c] EXCEPT !.quiet = FALSE]]])
        : W \in {W0}})

\* The request future resolves with a normal response.
RequestReturns(c) ==
    /\ task[c].pc = "inflight"
    /\ LET r == task[c].req
           W == ReleaseLock(World)
       IN  IF r.method = "read_holding_registers"
           THEN Commit(ReadReturn(W, c, ReadResponse(backend, r.address, r.count)))
           ELSE Commit(WriteReturn(
                    Written([W EXCEPT !.backend =
                        WriteResponse(backend, r.address, r.values)]), c))
    /\ UNCHANGED <<connectTask, connectCalls, ctx, nextSeq>>
    /\ UNCHANGED <<svars, mvars>>

\* The request future resolves with a Modbus error response: it has no
\* registers attribute, and write_registers ignores it.
RequestErrorResponse(c) ==
    /\ task[c].pc = "inflight"
    /\ LET r == task[c].req
           W == ReleaseLock(World)
       IN  IF r.method = "read_holding_registers"
           THEN Commit(Raise(W, c, "AttributeError"))
           ELSE Commit(WriteReturn(W, c))
    /\ UNCHANGED <<connectTask, connectCalls, ctx, nextSeq>>
    /\ UNCHANGED <<svars, mvars>>

\* asyncio.wait_for gives up after self.timeout.
RequestTimeout(c) ==
    /\ task[c].pc = "inflight"
    /\ Commit(Raise(ReleaseLock(MarkLost(World)), c, "TimeoutError"))
    /\ UNCHANGED <<connectTask, connectCalls, ctx, nextSeq>>
    /\ UNCHANGED <<svars, mvars>>

\* The request future raises pymodbus.exceptions.ConnectionException.
RequestConnectionException(c) ==
    /\ task[c].pc = "inflight"
    /\ Commit(Raise(ReleaseLock(MarkLost(World)), c, "ConnectionError"))
    /\ UNCHANGED <<connectTask, connectCalls, ctx, nextSeq>>
    /\ UNCHANGED <<svars, mvars>>

\* The request future raises anything else: it propagates unchanged.
RequestOtherException(c) ==
    /\ task[c].pc = "inflight"
    /\ Commit(Raise(ReleaseLock(World), c, "Exception"))
    /\ UNCHANGED <<connectTask, connectCalls, ctx, nextSeq>>
    /\ UNCHANGED <<svars, mvars>>

\* The TCP link drops: self.client.connected turns False.
LinkDrop ==
    /\ connectTask = "done"
    /\ connected
    /\ connected' = FALSE
    /\ UNCHANGED <<connectTask, connectCalls, ctx, locked, lockWaiters,
                   lockWoken, connWaiters, task, backend, nextSeq>>
    /\ returned' = NoReturn
    /\ UNCHANGED <<svars, mvars>>

\* The task of caller c is cancelled while it is suspended in
\* `await self.connectTask`: Task.cancel cancels the future the task waits
\* for, which is the connect task itself.  CancelledError is not an
\* Exception: it leaves _connect through `async with self.lock`, which
\* releases the lock; a connect task that had not started never runs.
CancelCaller(c) ==
    /\ task[c].pc = "connwait"
    /\ connectTask \in {"pending", "running"}
    /\ connectTask' = "cancelled"
    /\ LET W1 == Finish([World EXCEPT
                            !.connWaiters = SelectSeq(@, LAMBDA w : w # c)],
                        c, <<>>, "CancelledError")
           W2 == IF connectTask = "running" THEN ReleaseLock(W1) ELSE W1
       IN  Commit([W2 EXCEPT !.task[c] = CancelledTask])
    /\ UNCHANGED <<connectCalls, ctx, nextSeq>>
    /\ UNCHANGED <<svars, mvars>>

\* __aenter__ returns self: the body of the `async with` block starts.  No
\* coroutine runs between the construction and the start of the body.
Enter ==
    /\ ctx = "new"
    /\ connectTask = "pending"
    /\ nextSeq = 0
    /\ ctx' = "body"
    /\ UNCHANGED <<connectTask, connectCalls, connected, locked, lockWaiters,
                   lockWoken, connWaiters, task, backend, nextSeq>>
    /\ returned' = NoReturn
    /\ UNCHANGED <<svars, mvars>>

\* __aexit__: the body has returned or raised; _close closes the client.
Exit ==
    /\ ctx = "body"
    /\ ctx' = "exited"
    /\ connected' = FALSE
    /\ UNCHANGED <<connectTask, connectCalls, locked, lockWaiters,
                   lockWoken, connWaiters, task, backend, nextSeq>>
    /\ returned' = NoReturn
    /\ UNCHANGED <<svars, mvars>>


\* ------------------------------------------------ TemperatureController
\* Temperatures are integers: Celsius in 1/1800 of a degree, Fahrenheit in
\* 1/1000 of a degree, which makes both conversions exact.
Celsius(d) == d * 1800

\* c * 1.8 + 32.0
c_to_f(c) == c + 32000

\* (f - 32.0) / 1.8
f_to_c(f) == f - 32000

\* round(x, 2) of a Celsius temperature, in hundredths of a degree
Round0(c) == ((c + 900) \div 1800) * 100

Round2(c) == (c + 9) \div 18

DefaultRetries == 3
SanityMin == 0
SanityMax == 250

SerialKeys == <<"actual", "setpoint">>

\* preamble + header + header checksum + body + data checksum: the frame is
\* determined by the command and, for set, by the packed Fahrenheit value.
GetFrame(key) == [cmd |-> key]

SetFrame(setpoint) == [cmd |-> "set", payload |-> c_to_f(setpoint)]

SerialSetpoints == {Celsius(5), Celsius(10), Celsius(220), Celsius(221)}

\* What the device may answer: the setpoints, values just outside the sanity
\* bounds, and values 1/1800 and 1/100 of a degree above 10 C.
DeviceTemps ==
    SerialSetpoints
    \cup {Celsius(0 - 1), Celsius(251), Celsius(10) + 1, Celsius(10) + 18}

\* What connection.write / connection.read produce in one attempt: a
\* SerialException, bytes the expected pattern does not match, or a
\* well-formed response carrying a Fahrenheit value.
SerialResponses ==
    {[kind |-> "SerialException"], [kind |-> "nomatch"]}
    \cup {[kind |-> "match", payload |-> c_to_f(t)] : t \in DeviceTemps}

NoSerialCall == [kind |-> "none"]
NoResponse == [kind |-> "none"]
NoFrame == [cmd |-> "none"]

NoSerialReturn ==
    [call |-> NoSerialCall, tx |-> <<>>, result |-> <<>>, err |-> "none"]

SerialInit ==
    /\ isOpen = TRUE
    /\ sPc = "idle"
    /\ sCall = NoSerialCall
    /\ sKey = 0
    /\ sOutput = <<>>
    /\ sRequest = NoFrame
    /\ sRetries = 0
    /\ tx = <<>>
    /\ opened = 0
    /\ rx = NoResponse
    /\ sReturned = NoSerialReturn

\* The call in progress ends with a result or with the exception err.
SerialFinish(res, err) ==
    /\ sPc' = "idle"
    /\ sCall' = NoSerialCall
    /\ sKey' = 0
    /\ sOutput' = <<>>
    /\ sRequest' = NoFrame
    /\ sRetries' = 0
    /\ sReturned' = [call |-> sCall, tx |-> tx', result |-> res, err |-> err]

\* TemperatureController.get up to the first _write_and_read.
SerialGet ==
    /\ sPc = "idle"
    /\ sPc' = "attempt"
    /\ sCall' = [kind |-> "get"]
    /\ sKey' = 1
    /\ sOutput' = <<>>
    /\ sRequest' = GetFrame(SerialKeys[1])
    /\ sRetries' = DefaultRetries
    /\ tx' = <<>>
    /\ opened' = 0
    /\ rx' = NoResponse
    /\ sReturned' = NoSerialReturn
    /\ UNCHANGED isOpen
    /\ UNCHANGED <<gvars, mvars>>

\* TemperatureController.set up to its _write_and_read: the frame is built
\* from the setpoint as given.
SerialSet(setpoint) ==
    /\ sPc = "idle"
    /\ sPc' = "attempt"
    /\ sCall' = [kind |-> "set", setpoint |-> setpoint]
    /\ sKey' = 0
    /\ sOutput' = <<>>
    /\ sRequest' = SetFrame(setpoint)
    /\ sRetries' = DefaultRetries
    /\ tx' = <<>>
    /\ opened' = 0
    /\ rx' = NoResponse
    /\ sReturned' = NoSerialReturn
    /\ UNCHANGED isOpen
    /\ UNCHANGED <<gvars, mvars>>

\* _write_and_read returned temperature to get or to set.
SerialValue(temperature) ==
    IF sCall.kind = "get"
    THEN IF sKey < Len(SerialKeys)
         THEN /\ sPc' = "attempt"
              /\ sKey' = sKey + 1
              /\ sOutput' = Append(sOutput, temperature)
              /\ sRequest' = GetFrame(SerialKeys[sKey + 1])
              /\ sRetries' = DefaultRetries
              /\ sReturned' = NoSerialReturn
              /\ UNCHANGED sCall
         ELSE SerialFinish(Append(sOutput, temperature), "none")
    ELSE IF Round2(sCall.setpoint) # Round2(temperature)
         THEN SerialFinish(<<temperature>>, "OSError")
         ELSE SerialFinish(<<>>, "none")

\* _write_and_read calls itself with retries - 1.
SerialRetryKept ==
    /\ sRetries' = sRetries
    /\ sReturned' = NoSerialReturn
    /\ UNCHANGED <<sPc, sCall, sKey, sOutput, sRequest>>

SerialRetry ==
    /\ sRetries' = sRetries - 1
    /\ sReturned' = NoSerialReturn
    /\ UNCHANGED <<sPc, sCall, sKey, sOutput, sRequest>>

\* temperature < 0 or temperature > 250
OutOfBoundsUpperOnly(temperature) == temperature > Celsius(SanityMax)

OutOfBounds(temperature) ==
    temperature < Celsius(SanityMin) \/ temperature > Celsius(SanityMax)

\* One level of _write_and_read.  self.open() returns a new serial.Serial
\* that nothing keeps: self.connection stays the closed one, and flush()
\* on a closed port raises a SerialException.
SerialAttempt(resp) ==
    /\ sPc = "attempt"
    /\ opened' = IF isOpen THEN opened ELSE opened + 1
    /\ IF sRetries <= 0
       THEN /\ isOpen' = FALSE
            /\ tx' = tx
            /\ rx' = NoResponse
            /\ SerialFinish(<<>>, IF isOpen THEN "OSError" ELSE "SerialException")
       ELSE IF ~isOpen
       THEN /\ tx' = tx
            /\ rx' = NoResponse
            /\ SerialFinish(<<>>, "SerialException")
            /\ UNCHANGED isOpen
       ELSE /\ tx' = Append(tx, sRequest)
            /\ rx' = resp
            /\ UNCHANGED isOpen
            /\ IF resp.kind \in {"SerialException", "nomatch"}
               THEN SerialRetry
               ELSE IF OutOfBounds(f_to_c(resp.payload))
               THEN SerialRetry
               ELSE SerialValue(f_to_c(resp.payload))
    /\ UNCHANGED <<gvars, mvars>>

\* TemperatureController.close, called between two calls.
SerialClose ==
    /\ sPc = "idle"
    /\ isOpen
    /\ isOpen' = FALSE
    /\ rx' = NoResponse
    /\ sReturned' = NoSerialReturn
    /\ UNCHANGED <<sPc, sCall, sKey, sOutput, sRequest, sRetries, tx, opened>>
    /\ UNCHANGED <<gvars, mvars>>

\* ------------------------------------------------------- mock Gateway
\* Temperatures and outputs of the mock are integers, in tenths: its actual
\* temperature moves by 1, its setpoints may be any number such as 12.3.
Tenths(d) == d * 10

\* The zones of self.state modelled (the mock has zones 1 to 8, all alike).
MockZones == {1, 2}

\* Setpoints given to the mock: just below and at the lower limit, 12.3,
\* at and just above max_temp.
MockSetpoints ==
    {Tenths(MinTemp) - 1, Tenths(MinTemp), 123,
     Tenths(MockMaxTemp), Tenths(MockMaxTemp) + 1}

MockNoCall == [kind |-> "none"]

MockNoReturn == [call |-> MockNoCall, err |-> "none"]

MockInit ==
    /\ mState = [z \in MockZones |->
                    [actual |-> Tenths(25), setpoint |-> Tenths(25),
                     output |-> 0]]
    /\ mReturned = MockNoReturn

\* _perturb, for the temperatures of one zone.
PerturbHeatOnly(temps) ==
    IF temps.actual < temps.setpoint
    THEN [temps EXCEPT
             !.actual = @ + Tenths(1),
             !.output = Min(temps.setpoint - (temps.actual + Tenths(1)),
                            Tenths(100))]
    ELSE temps

Perturb(temps) ==
    IF temps.actual < temps.setpoint
    THEN [temps EXCEPT
             !.actual = @ + Tenths(1),
             !.output = Min(temps.setpoint - (temps.actual + Tenths(1)),
                            Tenths(100))]
    ELSE IF temps.actual > temps.setpoint
    THEN [temps EXCEPT !.actual = @ - Tenths(1), !.output = 0]
    ELSE temps

\* Mock get(zone), from the end of its sleep: _perturb on every zone, then
\* a copy of the state of the zone is returned (mState'[zone]).
MockGet(zone) ==
    /\ mState' = [z \in MockZones |-> Perturb(mState[z])]
    /\ mReturned' = [call |-> [kind |-> "get", zone |-> zone], err |-> "none"]
    /\ UNCHANGED <<gvars, svars>>

\* Mock set_setpoint(zone, setpoint): the range check, and from the end of
\* its sleep the store.
MockSetSetpoint(zone, setpoint) ==
    /\ IF Tenths(MinTemp) <= setpoint /\ setpoint <= Tenths(MockMaxTemp)
       THEN /\ mState' = [mState EXCEPT ![zone].setpoint = setpoint]
            /\ mReturned' = [call |-> [kind |-> "set_setpoint", zone |-> zone,
                                       setpoint |-> setpoint],
                             err |-> "none"]
       ELSE /\ mState' = mState
            /\ mReturned' = [call |-> [kind |-> "set_setpoint", zone |-> zone,
                                       setpoint |-> setpoint],
                             err |-> "ValueError"]
    /\ UNCHANGED <<gvars, svars>>

MockNext ==
    \/ \E zone \in MockZones : MockGet(zone)
    \/ \E zone \in MockZones, setpoint \in MockSetpoints :
          MockSetSetpoint(zone, setpoint)

Init == GatewayInit /\ SerialInit /\ MockInit

\* The mock Gateway alone.
SpecMock == Init /\ [][MockNext]_vars

SerialNext ==
    \/ SerialGet
    \/ \E setpoint \in SerialSetpoints : SerialSet(setpoint)
    \/ \E resp \in SerialResponses : SerialAttempt(resp)
    \/ SerialClose

\* The serial client alone.
SpecSerial == Init /\ [][SerialNext]_vars

Next ==
    \/ ConnectStart
    \/ \E ok \in BOOLEAN : ConnectFinish(ok)
    \/ \E c \in Callers, o \in Calls : Submit(c, o)
    \/ ResumeConnWaiter
    \/ ResumeLockWaiter
    \/ \E c \in Callers : RequestReturns(c)
    \/ \E c \in Callers : RequestErrorResponse(c)
    \/ \E c \in Callers : RequestTimeout(c)
    \/ \E c \in Callers : RequestConnectionException(c)
    \/ \E c \in Callers : RequestOtherException(c)
    \/ LinkDrop

\* The client used by its methods alone.
Spec == Init /\ [][Next]_vars

\* The event loop runs every coroutine that is ready, wait_for bounds the
\* connect attempt (line 52) and every request (line 129) by self.timeout.
Progress ==
    \/ ConnectStart
    \/ \E ok \in BOOLEAN : ConnectFinish(ok)
    \/ ResumeConnWaiter
    \/ ResumeLockWaiter
    \/ \E c \in Callers : RequestReturns(c)
    \/ \E c \in Callers : RequestErrorResponse(c)
    \/ \E c \in Callers : RequestTimeout(c)
    \/ \E c \in Callers : RequestConnectionException(c)
    \/ \E c \in Callers : RequestOtherException(c)

Fairness == WF_vars(Progress)

SpecLive == Spec /\ Fairness

\* The client with callers that may be cancelled while they wait for the
\* connect task.
CancelNext ==
    \/ Next
    \/ \E c \in Callers : CancelCaller(c)

SpecCancel == Init /\ [][CancelNext]_vars

\* The client used as an async context manager.
ScopedNext ==
    \/ Next
    \/ Enter
    \/ Exit

SpecScoped == Init /\ [][ScopedNext]_vars

\* ============================================================ claims
InFlight == {c \in Callers : task[c].pc = "inflight"}

Pending(c) == task[c].pc \in {"connwait", "lockwait", "inflight"}

\* C1: at most one wire operation, the connect step or one request, is in
\* flight on the client in every reachable state, whatever the callers do
\* and whatever failed before.
C1_SingleFlight ==
    Cardinality(InFlight) + (IF connectTask = "running" THEN 1 ELSE 0) <= 1

\* A request has just timed out on the wire while another caller was queued
\* on the lock.
C1_Witness ==
    /\ returned.err = "TimeoutError"
    /\ returned.sent # <<>>
    /\ lockWaiters # <<>>
    /\ lockWoken

\* C2: a caller is past `await self.connectTask`, queued on the lock or on
\* the wire, only once the single connect attempt has finished; connect()
\* is called at most once per client.
C2_ConnectBeforeRequest ==
    /\ connectCalls <= 1
    /\ \A c \in Callers :
          task[c].pc \in {"lockwait", "inflight"}
              => connectTask = "done" /\ connectCalls = 1
    /\ returned.sent # <<>> => connectTask = "done" /\ connectCalls = 1

\* A caller that had to wait for the connect task is on the wire, and
\* another one is queued behind it.
C2_Witness ==
    /\ connectCalls = 1
    /\ \E c, d \in Callers :
          /\ task[c].pc = "inflight"
          /\ task[d].pc = "lockwait"

\* C3 as stated: a logical call that used the wire and succeeded never ends
\* while a logical call submitted before it is still pending.
C3_LogicalFifo ==
    (returned.caller # 0 /\ returned.err = "none" /\ returned.sent # <<>>)
        => \A a \in Callers : a < returned.caller => ~Pending(a)

\* C3 amended: the wire requests are served in the order in which they
\* reached the lock: a request goes on the wire only when no other request
\* is queued on the lock, or when it is the oldest one queued.
C3_RequestFifo ==
    [][\A c \in Callers :
          (task'[c].pc = "inflight" /\ task'[c].sent # task[c].sent)
              => (lockWaiters = <<>> \/ Head(lockWaiters) = c)]_vars

\* A chunked call submitted first has had one request served and queues
\* again on the lock, after a call submitted later has ended.
C3_Witness ==
    \E a, b \in Callers :
        /\ a < b
        /\ task[a].pc = "lockwait"
        /\ Len(task[a].sent) >= 1
        /\ task[b].pc = "done"

\* C4: when a request times out or raises a connection exception while the
\* link reports connected, the link no longer reports connected once the
\* error has been raised.
C4_MarksLost ==
    [][\A c \in Callers :
          (/\ task[c].pc = "inflight"
           /\ connected
           /\ returned'.caller = c
           /\ returned'.err \in {"TimeoutError", "ConnectionError"})
              => ~connected']_vars

\* C5: every message of a write of more than 62 values carries at most 62
\* values; the k-th one is addressed at address + 124*k and carries
\* values[62*k : 62*k + 62].
C5_WriteChunks ==
    \A c \in Callers :
        (task[c].call.kind = "write_registers"
         /\ Len(task[c].call.values) > WriteLimit)
            => \A k \in 1..Len(task[c].sent) :
                  /\ Len(task[c].sent[k].values) <= WriteLimit
                  /\ task[c].sent[k].address =
                         task[c].call.address + WriteStride * (k - 1)
                  /\ task[c].sent[k].values =
                         Slice(task[c].call.values, WriteLimit * (k - 1),
                               WriteLimit * k)

\* C6: a read of n >= 1 registers that succeeds while the device applies no
\* write issues ceil(n/124) requests of 1 to 124 registers at contiguous
\* ascending addresses covering [address, address + n), and returns what one
\* read of the whole range returns.
C6_ReadChunks ==
    (/\ returned.call.kind = "read_registers"
     /\ returned.err = "none"
     /\ returned.quiet)
        => LET a == returned.call.address
               n == returned.call.count
               s == returned.sent
           IN  /\ Len(s) = CeilDiv(n, ReadLimit)
               /\ \A k \in 1..Len(s) :
                     /\ s[k].method = "read_holding_registers"
                     /\ s[k].count \in 1..ReadLimit
               /\ s[1].address = a
               /\ \A k \in 1..(Len(s) - 1) :
                     s[k + 1].address = s[k].address + s[k].count
               /\ s[Len(s)].address + s[Len(s)].count = a + n
               /\ returned.result = ReadResponse(backend, a, n)

\* A read of more than 124 registers has returned its registers.
C6_Witness ==
    /\ returned.call.kind = "read_registers"
    /\ returned.err = "none"
    /\ returned.quiet
    /\ returned.call.count > ReadLimit
    /\ Len(returned.result) = returned.call.count

\* C7: once __aexit__ has completed, the client is not connected.
C7_ClosedAfterExit == ctx = "exited" => ~connected

\* C8: while the body of the `async with` block runs, the connect attempt has
\* resolved.
C8_ReadyOnEnter == ctx = "body" => connectTask \in {"done", "failed"}

C10_SetFramesInRange ==
    \A k \in 1..Len(tx) :
        tx[k].cmd = "set"
            => /\ Celsius(MinTemp) <= f_to_c(tx[k].payload)
               /\ f_to_c(tx[k].payload) <= Celsius(MaxTemp)

\* C11: Gateway.set_setpoint with a setpoint outside [10, max_temp] fails
\* with ValueError and issues no request; with a setpoint inside it is
\* accepted, and when it succeeds it has issued exactly one register write,
\* at (zone - 1) * modbus_offset + 2160.
C11_SetSetpointRange ==
    returned.call.kind = "set_setpoint"
        => IF MinTemp <= returned.call.setpoint
              /\ returned.call.setpoint <= MaxTemp
           THEN /\ returned.err \notin {"ValueError", "AttributeError"}
                /\ returned.err = "none"
                      => /\ Len(returned.sent) = 1
                         /\ returned.sent[1].method = "write_registers"
                         /\ returned.sent[1].address =
                                (returned.call.zone - 1) * ModbusOffset
                                    + SetpointAddress
           ELSE /\ returned.err = "ValueError"
                /\ returned.sent = <<>>

\* C14: Gateway.get never raises: it returns a mapping with the three keys,
\* a field whose read failed being None.
C14_GetIsolatesFailures ==
    returned.call.kind = "get"
        => /\ returned.err = "none"
           /\ Len(returned.result) = Len(GetKeys)

\* The write-then-read cycles of the _write_and_read in progress: the frames
\* written during the call that are its request.
Cycles == Cardinality({k \in 1..Len(tx) : tx[k] = sRequest})

\* The frames the call in progress may write, in the order of its
\* _write_and_read calls.
CallFrames(call) ==
    IF call.kind = "set"
    THEN <<SetFrame(call.setpoint)>>
    ELSE [j \in 1..Len(SerialKeys) |-> GetFrame(SerialKeys[j])]

\* t is made of at most DefaultRetries copies of each frame of frames, in
\* the order of frames.
BoundedRepeats(t, frames) ==
    /\ \A k \in 1..Len(t) : \E j \in 1..Len(frames) : t[k] = frames[j]
    /\ \A j \in 1..Len(frames) :
          Cardinality({k \in 1..Len(t) : t[k] = frames[j]}) <= DefaultRetries
    /\ \A k \in 1..(Len(t) - 1) : \A i, j \in 1..Len(frames) :
          (t[k] = frames[i] /\ t[k + 1] = frames[j]) => i <= j

\* C12: one _write_and_read performs at most 3 write-then-read cycles; each
\* failed cycle takes one from retries and the next one writes the same
\* frame; a call returns its value on a well-formed, in-bounds response; a
\* call whose third cycle failed ends with OSError and the port closed.
C12_RetryPolicy ==
    /\ sPc = "attempt"
          => /\ Cycles <= DefaultRetries
             /\ sRetries = DefaultRetries - Cycles
             /\ BoundedRepeats(tx, CallFrames(sCall))
             /\ Cycles > 0 => tx[Len(tx)] = sRequest
    /\ sReturned.call.kind # "none"
          => /\ BoundedRepeats(sReturned.tx, CallFrames(sReturned.call))
             /\ sReturned.err = "none"
                   => /\ rx.kind = "match"
                      /\ sReturned.tx # <<>>
             /\ (sReturned.err = "OSError" /\ rx = NoResponse)
                   => /\ ~isOpen
                      /\ Len(sReturned.tx) >= DefaultRetries
                      /\ \A k \in 0..(DefaultRetries - 1) :
                            sReturned.tx[Len(sReturned.tx) - k]
                                = sReturned.tx[Len(sReturned.tx)]

\* A get read its first field on the second cycle and gave up on the second
\* field after three failed cycles.
C12_Witness ==
    /\ sReturned.call.kind = "get"
    /\ sReturned.err = "OSError"
    /\ rx = NoResponse
    /\ Len(sReturned.tx) = 5
    /\ ~isOpen

\* C13: a call never flushes or writes on a closed port: an attempt that
\* finds the connection closed runs on a re-opened one, so no get or set
\* ends with the SerialException a closed port raises.
C13_ReopensWhenClosed ==
    sReturned.call.kind # "none" => sReturned.err # "SerialException"

\* A Celsius temperature in hundredths of a degree, rounded to the nearest.
Hundredths(c) == (c + 9) \div 18

\* C16: when the acknowledgement of a set frame is well-formed and within
\* bounds, set returns normally exactly when the echoed value and the
\* requested setpoint agree to two decimal places; otherwise it ends with
\* OSError in that same step, the port still open and nothing retransmitted.
C16_WriteVerification ==
    (sReturned.call.kind = "set" /\ rx.kind = "match")
        => /\ sReturned.err = "none"
                 <=> Hundredths(sReturned.call.setpoint)
                         = Hundredths(f_to_c(rx.payload))
           /\ sReturned.err # "none"
                 => /\ sReturned.err = "OSError"
                    /\ isOpen
                    /\ sPc = "idle"
                    /\ sReturned.tx[Len(sReturned.tx)]
                           = SetFrame(sReturned.call.setpoint)
                    /\ Len(sReturned.tx) <= DefaultRetries

\* A set of 10 C was acknowledged with 10.01 C on its second cycle and
\* failed.
C16_Witness ==
    /\ sReturned.call.kind = "set"
    /\ sReturned.call.setpoint = Celsius(10)
    /\ rx.kind = "match"
    /\ f_to_c(rx.payload) = Celsius(10) + 18
    /\ sReturned.err = "OSError"
    /\ Len(sReturned.tx) = 2
    /\ isOpen

C19_FailFast ==
    [][(connectTask = "done" /\ ~connected)
          => \A c \in Callers :
                /\ task'[c].pc = "inflight"
                      => /\ task[c].pc = "inflight"
                         /\ task'[c].sent = task[c].sent
                /\ (/\ task[c].pc \in {"idle", "connwait", "lockwait"}
                    /\ task'[c].pc = "done"
                    /\ returned'.call.kind \in {"read_registers",
                                                "write_registers"})
                      => /\ returned'.caller = c
                         /\ returned'.err = "TimeoutError"
                         /\ returned'.sent = task[c].sent
                         /\ ~locked'
                         /\ lockWaiters' # <<>> => lockWoken']_vars

\* A queued request got the lock after the link had dropped and failed at
\* once, waking the request queued behind it.
C19_Witness ==
    /\ connectTask = "done"
    /\ ~connected
    /\ returned.err = "TimeoutError"
    /\ returned.sent = <<>>
    /\ ~locked
    /\ lockWaiters # <<>>
    /\ lockWoken

\* C20: the lock is held only by the connect attempt or by the request in
\* flight, and every logical call that is waiting for the connect task, for
\* the lock or for its response eventually ends, with a result or an error.
C20_RequestLiveness ==
    /\ [](locked => (connectTask = "running" \/ InFlight # {}))
    /\ \A c \in Callers : Pending(c) ~> (task[c].pc = "done")

\* The second call has ended with a connection exception after the first
\* one ended, and the lock is free.
C20_Witness ==
    /\ returned.caller = 2
    /\ returned.err = "ConnectionError"
    /\ task[1].pc = "done"
    /\ ~locked
    /\ lockWaiters = <<>>

\* |actual - setpoint| of the temperatures of one zone of the mock
Distance(temps) ==
    IF temps.actual < temps.setpoint
    THEN temps.setpoint - temps.actual
    ELSE temps.actual - temps.setpoint

\* C17 as stated: a get of the mock never increases |actual - setpoint| of
\* any zone.
C17_DistanceNeverIncreases ==
    [][mReturned'.call.kind = "get"
          => \A z \in MockZones :
                Distance(mState'[z]) <= Distance(mState[z])]_vars

\* C17 amended: a get of the mock takes one unit off |actual - setpoint| of
\* every zone where it is at least one unit, and leaves it below one unit
\* where it is below one unit (at 0 where it is 0).
C17_TrendsWithinOneUnit ==
    [][mReturned'.call.kind = "get"
          => \A z \in MockZones :
                /\ mState'[z].setpoint = mState[z].setpoint
                /\ IF Distance(mState[z]) >= 10
                   THEN Distance(mState'[z]) = Distance(mState[z]) - 10
                   ELSE /\ Distance(mState'[z]) < 10
                        /\ Distance(mState[z]) = 0
                              => Distance(mState'[z]) = 0]_vars

\* Zone 1 was set to 12.3 and cooled from 25 to 12, and a get has just
\* heated it back to 13; zone 2 is still at its initial temperature.
C17_Witness ==
    /\ mReturned.call.kind = "get"
    /\ mState[1].setpoint = 123
    /\ mState[1].actual = 130
    /\ mState[1].output = 0 - 7
    /\ mState[2].actual = 250

\* The setpoint the device holds for a zone, as get decodes it.
DeviceSetpoint(zone) ==
    RegistersToFloat(ReadResponse(backend, ZoneAddress(zone, SetpointAddress), 2))

\* C15: set_setpoint(zone, s) with s in range, unless the connection fails
\* it, leaves s in the device registers of the setpoint of the zone, and
\* get(zone), unless the connection fails it, returns as setpoint what these
\* registers hold: a get after a set_setpoint of the zone returns s.
C15_RoundTrip ==
    LET ConnectionErrors ==
            {"IOError", "TimeoutError", "ConnectionError", "Exception"}
    IN  /\ (/\ returned.call.kind = "set_setpoint"
            /\ MinTemp <= returned.call.setpoint
            /\ returned.call.setpoint <= MaxTemp
            /\ returned.err \notin ConnectionErrors)
              => /\ returned.err = "none"
                 /\ DeviceSetpoint(returned.call.zone)
                        = returned.call.setpoint * 10
        /\ (/\ returned.call.kind = "get"
            /\ returned.quiet
            /\ returned.err \notin ConnectionErrors)
              => /\ returned.err = "none"
                 /\ Len(returned.result) = Len(GetKeys)
                 /\ returned.result[2] = DeviceSetpoint(returned.call.zone)

\* The callers queued on the lock ahead of caller c.
Ahead(c, waiters) ==
    {waiters[i] : i \in {j \in 1..Len(waiters) :
                            \E k \in (j + 1)..Len(waiters) : waiters[k] = c}}

Queued(c, waiters) == \E k \in 1..Len(waiters) : waiters[k] = c

\* Caller c is between two wire requests of its logical call: one has been
\* served and it waits for the lock for the next one.
MidCall(c) == task[c].pc = "lockwait" /\ Len(task[c].sent) >= 1

\* C21 as stated: while a caller is between two wire requests of its chunked
\* call, no wire request of another caller is served.
C21_ChunkedAtomic ==
    [][\A c, d \in Callers :
          (c # d /\ MidCall(c))
              => ~(task'[d].pc = "inflight" /\ task'[d].sent # task[d].sent)]_vars

\* C21 amended: only the single wire request is atomic.  While a caller
\* waits for the lock (between two chunks as well), nobody joins the queue
\* ahead of it, and a request of another caller is served only if that caller
\* was queued ahead of it, which it then no longer is: between two chunks of
\* a call at most one request of each other caller is served.
C21_BoundedBypass ==
    [][\A c \in Callers :
          Queued(c, lockWaiters)
              => /\ Queued(c, lockWaiters')
                       => Ahead(c, lockWaiters') \subseteq Ahead(c, lockWaiters)
                 /\ \A d \in Callers \ {c} :
                       (task'[d].pc = "inflight" /\ task'[d].sent # task[d].sent)
                           => /\ d \in Ahead(c, lockWaiters)
                              /\ Queued(c, lockWaiters')
                              /\ d \notin Ahead(c, lockWaiters')]_vars

\* A request of another caller is on the wire while a chunked read has had
\* its first chunk and waits for the lock for its next one.
C21_Witness ==
    \E c, d \in Callers :
        /\ c # d
        /\ MidCall(c)
        /\ task[c].call.kind = "read_registers"
        /\ task[d].pc = "inflight"

\* C22: cancelling a caller that waits for the connect task does not cancel
\* the connect task, and CancelledError reaches no caller but the cancelled
\* one.
C22_CancelIsolated ==
    /\ connectTask # "cancelled"
    /\ returned.err = "CancelledError"
          => task[returned.caller].pc = "cancelled"

\* C23: the output of every zone of the mock is a percentage, within
\* [0, 100], in every state get and in-range set_setpoint calls lead to.
C23_OutputIsPercentage ==
    \A z \in MockZones :
        /\ 0 <= mState[z].output
        /\ mState[z].output <= Tenths(100)

====
